---- MODULE Spec2Model ----
(***************************************************************************)
(* Model of the n8n node "PDF4me AI": the dispatcher Pdf4me.execute, the   *)
(* eight document actions it calls, and the asynchronous request client    *)
(* pdf4meAsyncRequest the actions call.                                    *)
(*                                                                         *)
(* The dispatcher and the actions are translated from their sources.  The  *)
(* client lives in GenericFunctions.ts, which is not among the sources: it *)
(* is modelled from section 4.1 of the specification (the definitions      *)
(* ClassifySubmit, ClassifyPoll, AfterWait and the response sets).         *)
(*                                                                         *)
(* Strings are sequences of tokens.  The token "JVBERi0x" is the base64    *)
(* text of the six bytes "%PDF-1"; "," and " " are the comma and a blank.  *)
(* Item indices are 0-based as in the source; items[k + 1] is item k.      *)
(***************************************************************************)
EXTENDS Integers, Sequences, FiniteSets, TLC

(***************************************************************************)
(* Bounds of the model.                                                    *)
(***************************************************************************)
MaxItems == 2
\* the client's overall deadline and poll interval, in the same time unit
Deadline == 5
PollInterval == 2

(***************************************************************************)
(* Operations and their per-action differences.                            *)
(***************************************************************************)
Operations ==
    { "aiInvoiceParser", "aiProcessHealthCard", "aiProcessContract",
      "aiProcessMortgageDocument", "aiProcessBankCheque", "aiProcessCreditCard",
      "aiProcessPayStub", "aiProcessMarriageCertificate" }

\* a value of the 'operation' parameter that is none of the eight constants
UnknownOperation == "unknownOperation"

\* faulty variant: every action checks the header
PdfValidatedEverywhere == Operations

\* actions that check the 'JVBERi0x' header before they submit
PdfValidated ==
    { "aiInvoiceParser", "aiProcessContract", "aiProcessMortgageDocument",
      "aiProcessBankCheque" }

\* actions that raise NodeOperationError / NodeApiError instead of Error
TypedErrors == { "aiProcessContract", "aiProcessBankCheque", "aiProcessPayStub" }

\* actions whose success record carries pairedItem: { item: index }
PairedItemActions == TypedErrors

InputDataTypes == { "binaryData", "base64", "url" }

DocNames == { "invoice.pdf" }

(***************************************************************************)
(* Strings.                                                                *)
(***************************************************************************)
PdfHeader == "JVBERi0x"

\* binary buffers (from the previous node, or downloaded), as byte chunks
Buffers == { <<>>, <<"xyz">>, <<"%PDF-1", "xyz">> }

\* base64 strings: the empty one, the text of "xyz", the text of a PDF
Base64Strings == { <<>>, <<"eHl6">>, <<PdfHeader, "eHl6">> }

\* b preceded by a data-URL prefix
DataUrl(b) == <<"data:application/pdf;base64", ",">> \o b

\* values of the base64Content parameter: base64 strings with and without
\* the prefix, a blank, and a text that is not base64
Base64Inputs ==
    Base64Strings \cup { DataUrl(b) : b \in Base64Strings }
    \cup { <<" ">>, <<"not base64">> }

\* buffer.toString('base64')
EncodeChunk(c) == IF c = "%PDF-1" THEN PdfHeader ELSE "eHl6"

ToBase64(buf) == [k \in 1..Len(buf) |-> EncodeChunk(buf[k])]

\* docContent.includes(',')
Includes(s, c) == \E k \in 1..Len(s) : s[k] = c

\* positions of the separator c in s
Positions(s, c) == { k \in 1..Len(s) : s[k] = c }

Min(S) == CHOOSE x \in S : \A y \in S : x <= y

\* docContent.split(',')[1]: the text between the first comma and the next
\* one (or the end); only called when s has a comma
SplitSecond(s, c) ==
    LET first == Min(Positions(s, c))
        rest  == { k \in Positions(s, c) : k > first }
        last  == IF rest = {} THEN Len(s) ELSE Min(rest) - 1
    IN  SubSeq(s, first + 1, last)

\* faulty variant: keeps what stands before the first comma
NormalizeBase64KeepsFirst(s) ==
    IF Includes(s, ",") THEN SubSeq(s, 1, Min(Positions(s, ",")) - 1) ELSE s

\* the base64 branch: strip a data-URL prefix
NormalizeBase64(s) == IF Includes(s, ",") THEN SplitSecond(s, ",") ELSE s

\* !docContent || docContent.trim() === ''
IsBlank(s) == \A k \in 1..Len(s) : s[k] = " "

\* docContent.startsWith('JVBERi0x')
StartsWithPdfHeader(s) == Len(s) > 0 /\ s[1] = PdfHeader

(***************************************************************************)
(* HTTP responses of the remote service, as the client sees them.          *)
(***************************************************************************)
NoObj == [none |-> "none"]

\* the JSON object the remote service answers with; it has a key named
\* _metadata of its own
RemoteObject == [amount |-> "100.00", _metadata |-> [remote |-> "yes"]]

\* the same object as JSON text
RemoteJson == "{amount:100.00,_metadata:{remote:yes}}"

NoBody == [type |-> "none", obj |-> NoObj, text |-> ""]

\* a body is a parsed object, or a string (JSON text, other text, or empty)
Bodies ==
    { [type |-> "object", obj |-> RemoteObject, text |-> ""] }
    \cup { [type |-> "string", obj |-> NoObj, text |-> t] :
             t \in { RemoteJson, "<html>", "" } }

ErrorBody == [type |-> "string", obj |-> NoObj, text |-> "error"]

Locations == { "L1", "L2" }
NoLocation == "none"

SuccessStatuses == { 200, 201 }
ErrorStatuses == { 400, 401, 403, 404, 429, 500 }
TransportCodes == { "ECONNRESET", "ENOTFOUND" }

\* status 0 with a code: no response arrived (connection reset, DNS failure)
NoResponse ==
    [status |-> 0, body |-> NoBody, location |-> NoLocation, code |-> "none"]

SubmitResponses ==
    { [status |-> s, body |-> b, location |-> NoLocation, code |-> "none"] :
        s \in SuccessStatuses, b \in Bodies }
    \cup { [status |-> 202, body |-> NoBody, location |-> l, code |-> "none"] :
             l \in Locations }
    \cup { [status |-> s, body |-> ErrorBody, location |-> NoLocation, code |-> "none"] :
             s \in ErrorStatuses }
    \cup { [status |-> 0, body |-> NoBody, location |-> NoLocation, code |-> c] :
             c \in TransportCodes }

\* a poll answer carries no new location: the client keeps the first one;
\* the poll answers are the classes of the submit answers, with fewer
\* representatives of the error class
PollResponses ==
    { r \in SubmitResponses :
        r.status \in {200, 404, 500} \/ r.code = "ECONNRESET" }
    \cup { [status |-> 202, body |-> NoBody, location |-> NoLocation, code |-> "none"] }

(***************************************************************************)
(* The asynchronous request client (pdf4meAsyncRequest), section 4.1.      *)
(***************************************************************************)
NoResult == [kind |-> "none", body |-> NoBody, statusCode |-> 0, code |-> "none"]

Success(body) == [kind |-> "success", body |-> body, statusCode |-> 0, code |-> "none"]

ApiError(status, body) ==
    [kind |-> "api", body |-> body, statusCode |-> status, code |-> "none"]

TimeoutError == [kind |-> "timeout", body |-> NoBody, statusCode |-> 0, code |-> "none"]

TransportError(code) ==
    [kind |-> "transport", body |-> NoBody, statusCode |-> 0, code |-> code]

Is2xx(status) == 200 <= status /\ status <= 299

\* faulty variant: only 200 is final, every other 2xx is taken for "accepted"
ClassifySubmitOnly200(resp) ==
    IF resp.status = 0
    THEN [next |-> "done", result |-> TransportError(resp.code), location |-> NoLocation]
    ELSE IF Is2xx(resp.status) /\ resp.status # 200
    THEN [next |-> "poll", result |-> NoResult, location |-> resp.location]
    ELSE IF resp.status = 200
    THEN [next |-> "done", result |-> Success(resp.body), location |-> NoLocation]
    ELSE [next |-> "done", result |-> ApiError(resp.status, resp.body),
          location |-> NoLocation]

\* Submit phase: what the client does with the answer to its POST.
\* next = "done": the invocation ends with result; next = "poll": go and poll.
ClassifySubmit(resp) ==
    IF resp.status = 0
    THEN [next |-> "done", result |-> TransportError(resp.code), location |-> NoLocation]
    ELSE IF resp.status = 202
    THEN [next |-> "poll", result |-> NoResult, location |-> resp.location]
    ELSE IF Is2xx(resp.status)
    THEN [next |-> "done", result |-> Success(resp.body), location |-> NoLocation]
    ELSE [next |-> "done", result |-> ApiError(resp.status, resp.body),
          location |-> NoLocation]

\* faulty variant: polls a fixed URL instead of the returned location
PollTargetFixed(loc) == "L1"

\* the URL of a poll GET: the location the 202 answer gave
PollTarget(loc) == loc

\* faulty variant: an error status at a poll is taken for "still processing"
ClassifyPollErrorsAsPending(resp) ==
    IF resp.status = 0
    THEN [next |-> "done", result |-> TransportError(resp.code)]
    ELSE IF Is2xx(resp.status) /\ resp.status # 202
    THEN [next |-> "done", result |-> Success(resp.body)]
    ELSE [next |-> "wait", result |-> NoResult]

\* faulty variant: only 200 continues nothing; a 202 at a poll is an error
ClassifyPollStrict(resp) ==
    IF resp.status = 0
    THEN [next |-> "done", result |-> TransportError(resp.code)]
    ELSE IF resp.status = 200
    THEN [next |-> "done", result |-> Success(resp.body)]
    ELSE [next |-> "done", result |-> ApiError(resp.status, resp.body)]

\* Poll phase: what the client does with the answer to one poll GET.
\* next = "wait": still processing, wait one interval.
ClassifyPoll(resp) ==
    IF resp.status = 0
    THEN [next |-> "done", result |-> TransportError(resp.code)]
    ELSE IF resp.status = 202
    THEN [next |-> "wait", result |-> NoResult]
    ELSE IF Is2xx(resp.status)
    THEN [next |-> "done", result |-> Success(resp.body)]
    ELSE [next |-> "done", result |-> ApiError(resp.status, resp.body)]

\* faulty variant: compares the time before the wait, one poll too many
AfterWaitLate(t) ==
    IF t >= Deadline
    THEN [next |-> "done", result |-> TimeoutError]
    ELSE [next |-> "poll", result |-> NoResult]

\* faulty variant: leaves the loop at the deadline without raising
AfterWaitFallThrough(t) ==
    IF t + PollInterval >= Deadline
    THEN [next |-> "done", result |-> NoResult]
    ELSE [next |-> "poll", result |-> NoResult]

\* after waiting one interval: poll again, or the deadline has elapsed
AfterWait(t) ==
    IF t + PollInterval >= Deadline
    THEN [next |-> "done", result |-> TimeoutError]
    ELSE [next |-> "poll", result |-> NoResult]

\* ceil(a / b)
CeilDiv(a, b) == (a + b - 1) \div b

(***************************************************************************)
(* Errors.  statusCode = 0: the error object has no statusCode property;   *)
(* shown is the status the message text prints (0: none).                  *)
(***************************************************************************)
NoError == [cls |-> "none", message |-> "", shown |-> 0, statusCode |-> 0]

\* throw new Error(msg) / throw new NodeOperationError(this.getNode(), msg)
OpError(op, msg) ==
    [cls |-> IF op \in TypedErrors THEN "NodeOperationError" ELSE "Error",
     message |-> msg, shown |-> 0, statusCode |-> 0]

\* reading [0] of an empty item list: "Cannot read properties of undefined"
UndefinedItemError ==
    [cls |-> "TypeError", message |-> "Cannot read properties of undefined",
     shown |-> 0, statusCode |-> 0]

\* the download GET of the url branch failed; the helper's error is not caught
DownloadError ==
    [cls |-> "HostError", message |-> "download failed", shown |-> 0, statusCode |-> 0]

ValidationMessages ==
    { "No binary data found", "Unsupported input data type",
      "content is required", "Invalid PDF content" }

\* faulty variant: the status is not looked at, every error of the client is
\* reported as a connection error
MapClientErrorAsConnection(op, e) == OpError(op, "Connection error")

\* the catch block around the client call
MapClientError(op, e) ==
    IF op \in TypedErrors
    THEN IF e.statusCode # 0
         THEN [cls |-> "NodeApiError", message |-> "API error", shown |-> e.statusCode,
               statusCode |-> e.statusCode]
         ELSE OpError(op, "Connection error")
    ELSE IF e.code = "ECONNRESET" THEN OpError(op, "Connection was reset")
    ELSE IF e.statusCode = 500
         THEN [OpError(op, "PDF4Me server error") EXCEPT !.shown = 500]
    ELSE IF e.statusCode = 404 THEN OpError(op, "API endpoint not found")
    ELSE IF e.statusCode = 401 THEN OpError(op, "Authentication failed")
    ELSE IF e.statusCode = 403 THEN OpError(op, "Access denied")
    ELSE IF e.statusCode = 429 THEN OpError(op, "Rate limit exceeded")
    ELSE IF e.statusCode # 0
         THEN [OpError(op, "PDF4Me API error") EXCEPT !.shown = e.statusCode]
    ELSE OpError(op, "Connection error")

(***************************************************************************)
(* Records and the outcome of one action execution.                        *)
(***************************************************************************)
NoJson == [none |-> "none"]
NoRecord == [from |-> -1, json |-> NoJson, error |-> NoError, pairedItem |-> -1]

NoOutcome == [kind |-> "none", record |-> NoRecord, error |-> NoError]
Throw(err) == [kind |-> "throw", record |-> NoRecord, error |-> err]
Return(rec) == [kind |-> "return", record |-> rec, error |-> NoError]

\* faulty variant: text that is not JSON is wrapped in an object, no error
JsonParseLenient(text) ==
    IF text = RemoteJson
    THEN [ok |-> TRUE, value |-> RemoteObject]
    ELSE [ok |-> TRUE, value |-> [raw |-> text]]

\* JSON.parse(result)
JsonParse(text) ==
    IF text = RemoteJson
    THEN [ok |-> TRUE, value |-> RemoteObject]
    ELSE [ok |-> FALSE, value |-> NoObj]

\* faulty variant: the result is taken as it comes
TruthyAlways(body) == TRUE

\* if (result)
Truthy(body) ==
    \/ body.type = "object"
    \/ body.type = "string" /\ body.text # ""

\* actions that read the 'customFields' parameter
CustomFieldActions ==
    { "aiInvoiceParser", "aiProcessCreditCard", "aiProcessPayStub",
      "aiProcessBankCheque", "aiProcessMortgageDocument",
      "aiProcessMarriageCertificate" }

\* values of customFields.field: the key (invoice: the name) of every entry
\* in order, "" for an entry whose key was left empty
CustomFieldLists == { <<>>, <<"">>, <<"total", "", "date">> }

\* values of the 'documentType' parameter, as token sequences
DocumentTypes == { <<>>, <<" ">>, <<"loan">>, <<" ", "loan", " ">> }

\* the optional parameters at their getNodeParameter defaults: {}, '', false
DefaultParameters ==
    [customFields |-> <<>>, documentType |-> <<>>, verifyAuthenticity |-> FALSE]

\* every setting of the optional parameters
ParameterSettings ==
    [customFields : CustomFieldLists, documentType : DocumentTypes,
     verifyAuthenticity : BOOLEAN]

RECURSIVE TrimStart(_)
TrimStart(s) ==
    IF s # <<>> /\ Head(s) = " " THEN TrimStart(Tail(s)) ELSE s

RECURSIVE TrimEnd(_)
TrimEnd(s) ==
    IF s # <<>> /\ s[Len(s)] = " " THEN TrimEnd(SubSeq(s, 1, Len(s) - 1)) ELSE s

\* faulty variant: the value is passed on untrimmed
TrimNothing(s) == s

\* String.prototype.trim
Trim(s) == TrimEnd(TrimStart(s))

\* if (field.key): the key is not the empty string
IsKey(k) == k # ""

\* faulty variant: every entry is pushed, empty keys included
CustomFieldKeysUnfiltered(list) == list

\* the forEach loop that pushes the key of every entry that has one
CustomFieldKeys(list) == SelectSeq(list, IsKey)

\* the payload key the key list is sent under
CustomFieldKeysName(op) ==
    IF op = "aiInvoiceParser" THEN "customFieldKeys" ELSE "CustomFieldKeys"

\* obj[key] = val on an object
Set(obj, key, val) ==
    [k \in DOMAIN obj \cup {key} |-> IF k = key THEN val ELSE obj[k]]

\* faulty variant: the operation name of the invoice action in every action
MetadataOfInvoice(op, name) ==
    [success |-> TRUE, sourceFileName |-> name, operation |-> "aiInvoiceParser"]

Metadata(op, name) == [success |-> TRUE, sourceFileName |-> name, operation |-> op]

\* faulty variant: a _metadata key of the remote result is kept
MergeKeepsRemote(obj, metadata) ==
    [k \in DOMAIN obj \cup {"_metadata"} |->
        IF k \in DOMAIN obj THEN obj[k] ELSE metadata]

\* { ...processedData, _metadata: metadata }
Merge(obj, metadata) ==
    [k \in DOMAIN obj \cup {"_metadata"} |->
        IF k = "_metadata" THEN metadata ELSE obj[k]]

\* the optional fields the action adds to the metadata envelope
MetadataOf(op, name, params) ==
    LET keys == CustomFieldKeys(params.customFields)
        m0 == Metadata(op, name)
        m1 == IF op = "aiProcessMortgageDocument" /\ ~IsBlank(params.documentType)
              THEN Set(m0, "documentType", params.documentType)
              ELSE m0
        m2 == IF op = "aiProcessMarriageCertificate" /\ params.verifyAuthenticity
              THEN Set(m1, "verifyAuthenticity", params.verifyAuthenticity)
              ELSE m1
    IN  IF op = "aiInvoiceParser"
        THEN IF Len(params.customFields) > 0
             THEN Set(Set(m2, "customFieldsUsed", params.customFields),
                      "customFieldsCount", Len(params.customFields))
             ELSE m2
        ELSE IF op \in CustomFieldActions /\ Len(keys) > 0
        THEN Set(Set(m2, "customFieldsUsed", keys), "customFieldsCount", Len(keys))
        ELSE m2

SuccessRecord(op, index, name, params, obj) ==
    [from |-> index, json |-> Merge(obj, MetadataOf(op, name, params)),
     error |-> NoError,
     pairedItem |-> IF op \in PairedItemActions THEN index ELSE -1]

NoPayload == [docName |-> "none", docContent |-> <<>>, IsAsync |-> FALSE]

\* faulty variant: the flag is left out of the payload
PayloadWithoutFlag(name, content) ==
    [docName |-> name, docContent |-> content, IsAsync |-> FALSE]

\* the request payload { docName, docContent, ..., IsAsync: true }
Payload(name, content) ==
    [docName |-> name, docContent |-> content, IsAsync |-> TRUE]

\* the payload with the optional keys the action adds to it
PayloadOf(op, name, content, params) ==
    LET keys == CustomFieldKeys(params.customFields)
        p0 == Payload(name, content)
        p1 == IF op = "aiProcessMortgageDocument" /\ ~IsBlank(params.documentType)
              THEN Set(p0, "documentType", Trim(params.documentType))
              ELSE p0
        p2 == IF op = "aiProcessMarriageCertificate" /\ params.verifyAuthenticity
              THEN Set(p1, "VerifyAuthenticity", params.verifyAuthenticity)
              ELSE p1
    IN  IF op \in CustomFieldActions /\ Len(keys) > 0
        THEN Set(p2, CustomFieldKeysName(op), keys)
        ELSE p2

\* the keys of a payload beyond docName, docContent and IsAsync
Optional(obj) ==
    [k \in DOMAIN obj \ {"docName", "docContent", "IsAsync"} |-> obj[k]]

\* faulty variant: the POST goes out before the PDF header is checked
ContentStageSubmitFirst(op, content) ==
    IF IsBlank(content)
    THEN [error |-> OpError(op, "content is required"), submit |-> FALSE]
    ELSE IF op \in PdfValidated /\ ~StartsWithPdfHeader(content)
    THEN [error |-> OpError(op, "Invalid PDF content"), submit |-> TRUE]
    ELSE [error |-> NoError, submit |-> TRUE]

\* the content checks that follow the three input branches, and whether the
\* submit POST is issued
ContentStage(op, content) ==
    IF IsBlank(content)
    THEN [error |-> OpError(op, "content is required"), submit |-> FALSE]
    ELSE IF op \in PdfValidated /\ ~StartsWithPdfHeader(content)
    THEN [error |-> OpError(op, "Invalid PDF content"), submit |-> FALSE]
    ELSE [error |-> NoError, submit |-> TRUE]

\* the action's code after the client call: catch block, truthiness test,
\* parse, record
AfterClient(op, index, name, params, result) ==
    IF result.kind \in {"api", "timeout", "transport"}
    THEN Throw(MapClientError(op, result))
    ELSE IF ~Truthy(result.body)
    THEN Throw(OpError(op, "No response data received"))
    ELSE IF result.body.type = "string"
    THEN IF JsonParse(result.body.text).ok
         THEN Return(SuccessRecord(op, index, name, params,
                                   JsonParse(result.body.text).value))
         ELSE Throw(OpError(op, "Failed to parse API response"))
    ELSE Return(SuccessRecord(op, index, name, params, result.body.obj))

(***************************************************************************)
(* State.                                                                  *)
(***************************************************************************)
VARIABLES
    items,            \* this.getInputData(): the input items of the execution
    continueOnFail,   \* this.continueOnFail()
    parameters,       \* the node's optional parameters: customFields,
                      \* documentType, verifyAuthenticity
    i,                \* the dispatcher's loop index
    pc,               \* where the execution stands
    operationResult,  \* the records pushed so far
    thrown,           \* the error that left Pdf4me.execute, if any
    action,           \* the 'operation' parameter of item i
    inputDataType,    \* the 'inputDataType' parameter of item i
    docName,          \* the 'docName' parameter of item i
    docContent,       \* the action's docContent
    base64Content,    \* the 'base64Content' parameter of item i (base64 mode)
    payload,          \* the payload of the submit POST in flight
    optionsSent,      \* the optional keys of the payload sent for item i
    inFlight,         \* HTTP requests of item i issued and not yet answered
    downloads,        \* document download GETs issued for item i
    submits,          \* submit POSTs issued, per item
    polls,            \* poll GETs issued for item i
    pollUrl,          \* the URL of the last poll GET
    elapsed,          \* time waited in the poll loop
    location,         \* the polling location the 202 answer gave
    submitResponse,   \* the answer the submit POST received
    lastResponse,     \* the last answer the client received
    clientResult,     \* what pdf4meAsyncRequest returned or raised
    actionResult      \* what the action returned or raised

vars ==
    << items, continueOnFail, parameters, i, pc, operationResult, thrown, action, inputDataType,
       docName, docContent, base64Content, payload, optionsSent, inFlight, downloads, submits, polls, pollUrl, elapsed, location,
       submitResponse, lastResponse, clientResult, actionResult >>

hostVars == << items, continueOnFail, parameters >>
itemVars ==
    << action, inputDataType, docName, docContent, base64Content, payload,
       optionsSent >>
clientVars ==
    << polls, pollUrl, elapsed, location, submitResponse, lastResponse, clientResult >>

NoContent == <<>>

\* an item of the batch: its json and whether it has the named binary property
Item(k, hasBinary) == [json |-> [input |-> k], binary |-> hasBinary]

Batches ==
    UNION { { [k \in 1..n |-> Item(k - 1, b[k])] : b \in [1..n -> BOOLEAN] } :
              n \in 1..MaxItems }

\* getInputData(inputIndex) of an execution whose input items are batch: the
\* items of input number inputIndex; the node has the single input 0, any
\* other input has no items
GetInputDataOf(batch, inputIndex) == IF inputIndex = 0 THEN batch ELSE <<>>

\* this.getInputData(inputIndex)
GetInputData(inputIndex) == GetInputDataOf(items, inputIndex)

Init ==
    /\ items \in Batches
    /\ continueOnFail \in BOOLEAN
    /\ parameters = DefaultParameters
    /\ i = 0
    /\ pc = "loop"
    /\ operationResult = <<>>
    /\ thrown = NoError
    /\ action = "none"
    /\ inputDataType = "none"
    /\ docName = "none"
    /\ docContent = NoContent
    /\ base64Content = NoContent
    /\ payload = NoPayload
    /\ optionsSent = Optional(NoPayload)
    /\ inFlight = 0
    /\ downloads = 0
    /\ submits = [k \in 0..(Len(items) - 1) |-> 0]
    /\ polls = 0
    /\ pollUrl = NoLocation
    /\ elapsed = 0
    /\ location = NoLocation
    /\ submitResponse = NoResponse
    /\ lastResponse = NoResponse
    /\ clientResult = NoResult
    /\ actionResult = NoOutcome

(***************************************************************************)
(* The action, up to its first network call.                               *)
(***************************************************************************)
\* faulty variant: the presence check looks at the first item of the batch
\* whatever the index
ResolveBinaryFirstItem(batch, op, index, buf) ==
    IF ~batch[1].binary
    THEN [error |-> OpError(op, "No binary data found"), content |-> NoContent]
    ELSE [error |-> NoError, content |-> ToBase64(buf)]

\* the binaryData branch in an execution whose input items are batch:
\* presence check on getInputData(index)[0], then the buffer of item index
ResolveBinaryOf(batch, op, index, buf) ==
    IF GetInputDataOf(batch, index) = <<>>
    THEN [error |-> UndefinedItemError, content |-> NoContent]
    ELSE IF ~GetInputDataOf(batch, index)[1].binary
    THEN [error |-> OpError(op, "No binary data found"), content |-> NoContent]
    ELSE [error |-> NoError, content |-> ToBase64(buf)]

\* the binaryData branch of the execution under way
ResolveBinary(op, index, buf) == ResolveBinaryOf(items, op, index, buf)

\* faulty variant: the request is fired and its answer is not awaited
NotAwaited(n) == n

\* await: the caller goes on only when the request it issued is answered
Awaited(n) == n - 1

\* a request is issued
Issued(n) == n + 1

\* requests still in flight at the step under way: the download GET, when
\* the step is its answer, has been awaited
Pending == IF pc = "download" THEN Awaited(inFlight) ELSE inFlight

\* the action fails before the client is called
FailEarly(err) ==
    /\ actionResult' = Throw(err)
    /\ pc' = "actionDone"
    /\ payload' = NoPayload
    /\ optionsSent' = Optional(NoPayload)
    /\ inFlight' = Pending
    /\ UNCHANGED << submits, clientVars >>

\* docContent is known: validate it, build the payload and call the client,
\* which issues the submit POST
EnterContentStage(op, content) ==
    LET r == ContentStage(op, content)
    IN  /\ docContent' = content
        /\ submits' = IF r.submit THEN [submits EXCEPT ![i] = @ + 1] ELSE submits
        /\ payload' = IF r.submit
                      THEN PayloadOf(op, docName', content, parameters)
                      ELSE NoPayload
        /\ optionsSent' = Optional(payload')
        /\ inFlight' = IF r.submit THEN Issued(Pending) ELSE Pending
        /\ IF r.error # NoError
           THEN /\ actionResult' = Throw(r.error)
                /\ pc' = "actionDone"
           ELSE /\ actionResult' = NoOutcome
                /\ pc' = "submit"
        /\ UNCHANGED clientVars

\* faulty variant: an item whose operation matches no branch gets an empty
\* record
SkipUnknownRecords ==
    /\ pc = "loop"
    /\ i < Len(items)
    /\ i' = i + 1
    /\ operationResult' = Append(operationResult, [NoRecord EXCEPT !.from = i])
    /\ UNCHANGED << hostVars, pc, thrown, itemVars, inFlight,
                    downloads, submits, clientVars, actionResult >>

\* the loop head reads 'operation' of item i and finds none of the branches
SkipUnknown ==
    /\ pc = "loop"
    /\ i < Len(items)
    /\ i' = i + 1
    /\ UNCHANGED << hostVars, pc, operationResult, thrown, itemVars, inFlight,
                    downloads, submits, clientVars, actionResult >>

BeginBinary ==
    /\ pc = "loop"
    /\ i < Len(items)
    /\ \E op \in Operations, name \in DocNames, buf \in Buffers :
         LET r == ResolveBinary(op, i, buf)
         IN  /\ action' = op
             /\ inputDataType' = "binaryData"
             /\ docName' = name
             /\ base64Content' = NoContent
             /\ IF r.error # NoError
                THEN docContent' = NoContent /\ FailEarly(r.error)
                ELSE EnterContentStage(op, r.content)
    /\ UNCHANGED << hostVars, i, operationResult, thrown, downloads >>

BeginBase64 ==
    /\ pc = "loop"
    /\ i < Len(items)
    /\ \E op \in Operations, name \in DocNames, s \in Base64Inputs :
         /\ action' = op
         /\ inputDataType' = "base64"
         /\ docName' = name
         /\ base64Content' = s
         /\ EnterContentStage(op, NormalizeBase64(s))
    /\ UNCHANGED << hostVars, i, operationResult, thrown, downloads >>

\* the url branch issues the download GET
BeginUrl ==
    /\ pc = "loop"
    /\ i < Len(items)
    /\ \E op \in Operations, name \in DocNames :
         /\ action' = op
         /\ inputDataType' = "url"
         /\ docName' = name
    /\ downloads' = downloads + 1
    /\ inFlight' = Issued(inFlight)
    /\ pc' = "download"
    /\ UNCHANGED << hostVars, i, operationResult, thrown, docContent, base64Content,
                    payload, optionsSent, submits, clientVars, actionResult >>

BeginUnsupported ==
    /\ pc = "loop"
    /\ i < Len(items)
    /\ \E op \in Operations, name \in DocNames :
         /\ action' = op
         /\ inputDataType' = "other"
         /\ docName' = name
         /\ FailEarly(OpError(op, "Unsupported input data type"))
    /\ UNCHANGED << hostVars, i, operationResult, thrown, docContent, base64Content,
                    downloads >>

\* the download GET answers with the file
DownloadResponse ==
    /\ pc = "download"
    /\ UNCHANGED << hostVars, i, operationResult, thrown, action, inputDataType,
                    docName, base64Content, downloads >>
    /\ \E buf \in Buffers : EnterContentStage(action, ToBase64(buf))

\* the download GET fails; the action does not catch the helper's error
DownloadFailure ==
    /\ pc = "download"
    /\ FailEarly(DownloadError)
    /\ UNCHANGED << hostVars, i, operationResult, thrown, action, inputDataType,
                    docName, docContent, base64Content, downloads >>

(***************************************************************************)
(* The client's steps: one per answer it receives.                         *)
(***************************************************************************)
\* the client returns or raises, and the action runs on to its end: catch
\* block, truthiness test, parse, record
FinishAction(result) ==
    /\ clientResult' = result
    /\ actionResult' = AfterClient(action, i, docName, parameters, result)
    /\ pc' = "actionDone"

\* the payload has been sent: inputDataType and docContent are not read again
PayloadSent ==
    /\ inputDataType' = "none"
    /\ docContent' = NoContent
    /\ base64Content' = NoContent
    /\ payload' = NoPayload
    /\ UNCHANGED << action, docName, optionsSent >>

\* the answer to the submit POST arrives
SubmitResponse ==
    /\ pc = "submit"
    /\ \E resp \in SubmitResponses :
         LET r == ClassifySubmit(resp)
         IN  /\ lastResponse' = resp
             /\ submitResponse' = resp
             /\ location' = r.location
             /\ elapsed' = 0
             /\ IF r.next = "poll"
                THEN /\ polls' = 1
                     /\ pollUrl' = PollTarget(r.location)
                     /\ inFlight' = Issued(Awaited(inFlight))
                     /\ clientResult' = NoResult
                     /\ pc' = "poll"
                     /\ UNCHANGED actionResult
                ELSE /\ polls' = 0
                     /\ pollUrl' = NoLocation
                     /\ inFlight' = Awaited(inFlight)
                     /\ FinishAction(r.result)
    /\ PayloadSent
    /\ UNCHANGED << hostVars, i, operationResult, thrown, downloads, submits >>

\* the answer to a poll GET arrives; on "still processing" the client waits
\* one interval and polls again unless the deadline has elapsed
PollResponse ==
    /\ pc = "poll"
    /\ \E resp \in PollResponses :
         LET c == ClassifyPoll(resp)
             w == AfterWait(elapsed)
         IN  /\ lastResponse' = resp
             /\ IF c.next = "wait"
                THEN /\ elapsed' = elapsed + PollInterval
                     /\ IF w.next = "poll"
                        THEN /\ polls' = polls + 1
                             /\ pollUrl' = PollTarget(location)
                             /\ inFlight' = Issued(Awaited(inFlight))
                             /\ clientResult' = NoResult
                             /\ pc' = "poll"
                             /\ UNCHANGED actionResult
                        ELSE /\ inFlight' = Awaited(inFlight)
                             /\ FinishAction(w.result)
                             /\ UNCHANGED << polls, pollUrl >>
                ELSE /\ inFlight' = Awaited(inFlight)
                     /\ FinishAction(c.result)
                     /\ UNCHANGED << elapsed, polls, pollUrl >>
    /\ UNCHANGED << hostVars, i, operationResult, thrown, itemVars, downloads,
                    submits, location, submitResponse >>

(***************************************************************************)
(* The dispatcher: Pdf4me.execute.                                         *)
(***************************************************************************)
\* faulty variant: a failed item is run again
LoopNextRetry(index, failed) == IF failed THEN index ELSE index + 1

\* faulty variant: the loop steps over the next item
LoopNextSkipsOne(index, failed) == index + 2

\* the for loop's i++, after a push as after a caught error
LoopNext(index, failed) == index + 1

\* faulty variant: the error is recorded whatever continueOnFail() says
CatchAlwaysRecords(cof, index, err) ==
    IF GetInputData(index) = <<>> THEN Throw(UndefinedItemError)
    ELSE Return([from |-> index, json |-> GetInputData(index)[1].json,
                 error |-> err, pairedItem |-> index])

\* the catch block: an error record for the item, or the error goes on
Catch(cof, index, err) ==
    IF ~cof THEN Throw(err)
    ELSE IF GetInputData(index) = <<>> THEN Throw(UndefinedItemError)
    ELSE Return([from |-> index, json |-> GetInputData(index)[1].json,
                 error |-> err, pairedItem |-> index])

\* the locals of one action execution go out of scope
ForgetItem ==
    /\ action' = "none"
    /\ inputDataType' = "none"
    /\ docName' = "none"
    /\ docContent' = NoContent
    /\ base64Content' = NoContent
    /\ payload' = NoPayload
    /\ optionsSent' = Optional(NoPayload)
    /\ inFlight' = 0
    /\ downloads' = 0
    /\ polls' = 0
    /\ pollUrl' = NoLocation
    /\ elapsed' = 0
    /\ location' = NoLocation
    /\ submitResponse' = NoResponse
    /\ lastResponse' = NoResponse
    /\ clientResult' = NoResult
    /\ actionResult' = NoOutcome

\* faulty variant: the record is put in front of the earlier ones
PushResultInFront ==
    /\ pc = "actionDone"
    /\ actionResult.kind = "return"
    /\ operationResult' = << actionResult.record >> \o operationResult
    /\ i' = LoopNext(i, FALSE)
    /\ pc' = "loop"
    /\ ForgetItem
    /\ UNCHANGED << hostVars, thrown, submits >>

\* operationResult.push(...(await action.execute.call(this, i)))
PushResult ==
    /\ pc = "actionDone"
    /\ actionResult.kind = "return"
    /\ operationResult' = Append(operationResult, actionResult.record)
    /\ i' = LoopNext(i, FALSE)
    /\ pc' = "loop"
    /\ ForgetItem
    /\ UNCHANGED << hostVars, thrown, submits >>

\* catch (err), continue-on-fail: push the error record and go on
CatchContinue ==
    /\ pc = "actionDone"
    /\ actionResult.kind = "throw"
    /\ Catch(continueOnFail, i, actionResult.error).kind = "return"
    /\ operationResult' =
         Append(operationResult, Catch(continueOnFail, i, actionResult.error).record)
    /\ i' = LoopNext(i, TRUE)
    /\ pc' = "loop"
    /\ ForgetItem
    /\ UNCHANGED << hostVars, thrown, submits >>

\* catch (err): the error leaves execute
CatchThrow ==
    /\ pc = "actionDone"
    /\ actionResult.kind = "throw"
    /\ Catch(continueOnFail, i, actionResult.error).kind = "throw"
    /\ thrown' = Catch(continueOnFail, i, actionResult.error).error
    /\ pc' = "thrown"
    /\ ForgetItem
    /\ UNCHANGED << hostVars, i, operationResult, submits >>

\* return [operationResult]
ReturnResult ==
    /\ pc = "loop"
    /\ i >= Len(items)
    /\ pc' = "returned"
    /\ UNCHANGED << hostVars, i, operationResult, thrown, itemVars, inFlight,
                    downloads, submits, clientVars, actionResult >>

Next ==
    \/ SkipUnknown
    \/ BeginBinary
    \/ BeginBase64
    \/ BeginUrl
    \/ BeginUnsupported
    \/ DownloadResponse
    \/ DownloadFailure
    \/ SubmitResponse
    \/ PollResponse
    \/ PushResult
    \/ CatchContinue
    \/ CatchThrow
    \/ ReturnResult

Spec == Init /\ [][Next]_vars

(***************************************************************************)
(* Properties of the client.                                               *)
(***************************************************************************)
\* the client was called for item i and the action has run to its end
ClientEnded == pc = "actionDone" /\ submitResponse # NoResponse

\* a request of the client is in flight
ClientWaiting == pc \in {"submit", "poll"}

HasBody(body) == Truthy(body)

\* C1: when the submit POST gets a 2xx answer other than 202 that carries a
\* body, the client returns exactly that body and issues no poll GET.
C1_ImmediateBodyNoPoll ==
    (/\ submitResponse.status \in SuccessStatuses
     /\ HasBody(submitResponse.body))
    => /\ pc = "actionDone"
       /\ polls = 0
       /\ pollUrl = NoLocation
       /\ clientResult = Success(submitResponse.body)

C1_Witness ==
    /\ ClientEnded
    /\ submitResponse.status = 201
    /\ submitResponse.body.type = "object"
    /\ clientResult.kind = "success"
    /\ polls = 0

\* C2: when the submit POST gets 202, the client has issued at least one poll
\* GET, against the location of that answer, before it returns or raises.
C2_AcceptedThenPoll ==
    submitResponse.status = 202
    => /\ polls >= 1
       /\ location = submitResponse.location
       /\ pollUrl = submitResponse.location

C2_Witness ==
    /\ ClientEnded
    /\ submitResponse.status = 202
    /\ submitResponse.location = "L2"
    /\ pollUrl = "L2"
    /\ polls = 1
    /\ clientResult.kind = "api"

\* C3: an answer whose status is neither 2xx nor 202, to the submit or to a
\* poll, ends the invocation with an API error carrying that status; no
\* request is in flight after such an answer.
C3_ErrorStatusEndsAtOnce ==
    /\ ClientWaiting => lastResponse.status \in {0, 202} /\ lastResponse.code = "none"
    /\ (ClientEnded /\ lastResponse.status # 0 /\ ~Is2xx(lastResponse.status))
       => clientResult = ApiError(lastResponse.status, lastResponse.body)

C3_Witness ==
    /\ ClientEnded
    /\ polls = 2
    /\ lastResponse.status = 500
    /\ clientResult.kind = "api"
    /\ clientResult.statusCode = 500

\* C4: the client issues at most ceil(Deadline / PollInterval) polls, and when
\* every poll is answered 202 it ends with the timeout error.
C4_PollsBounded ==
    /\ polls <= CeilDiv(Deadline, PollInterval)
    /\ pc = "poll" => elapsed < Deadline
    /\ (ClientEnded /\ lastResponse.status = 202)
       => /\ clientResult = TimeoutError
          /\ polls = CeilDiv(Deadline, PollInterval)

C4_Witness ==
    /\ ClientEnded
    /\ clientResult = TimeoutError
    /\ lastResponse.status = 202
    /\ polls = CeilDiv(Deadline, PollInterval)

\* C5: an invocation of the client ends in exactly one of the four outcomes,
\* and has none of them while it still waits for an answer.
C5_ExactlyOneOutcome ==
    /\ ClientWaiting => clientResult = NoResult
    /\ ClientEnded
       => /\ clientResult.kind \in {"success", "api", "timeout", "transport"}
          /\ clientResult.kind = "success" <=> Is2xx(lastResponse.status) /\ lastResponse.status # 202
          /\ clientResult.kind = "api" <=> clientResult.statusCode # 0
          /\ clientResult.kind = "transport" <=> clientResult.code # "none"
          /\ clientResult.kind = "timeout" <=> lastResponse.status = 202

C5_Witness ==
    /\ ClientEnded
    /\ polls = 1
    /\ clientResult.kind = "transport"
    /\ clientResult.code = "ECONNRESET"

\* C6: after a 202 to the submit, every 202 to a poll makes the client wait
\* one interval and poll again as long as the deadline has not elapsed, and
\* the success body that ends the polling is what the client returns.
C6_PollUntilSuccess ==
    /\ pc = "poll"
       => /\ submitResponse.status = 202
          /\ clientResult = NoResult
          /\ elapsed = (polls - 1) * PollInterval
          /\ elapsed < Deadline
    /\ (ClientEnded /\ submitResponse.status = 202 /\ lastResponse.status = 200)
       => /\ clientResult = Success(lastResponse.body)
          /\ elapsed = (polls - 1) * PollInterval
    /\ (ClientEnded /\ submitResponse.status = 202 /\ lastResponse.status = 202)
       => elapsed >= Deadline

C6_Witness ==
    /\ ClientEnded
    /\ submitResponse.status = 202
    /\ polls = 2
    /\ elapsed = PollInterval
    /\ lastResponse.status = 200
    /\ clientResult = Success(lastResponse.body)
    /\ clientResult.body.type = "object"
    /\ actionResult.kind = "return"
    /\ action = "aiInvoiceParser"

(***************************************************************************)
(* Properties of the actions and of the dispatcher.                        *)
(***************************************************************************)
\* the action of item i has ended by raising err
ActionFailed == pc = "actionDone" /\ actionResult.kind = "throw"

\* the error classes an action raises for the remote-reported failures
ApiErrorClasses(op) ==
    { MapClientError(op, ApiError(st, ErrorBody)).cls : st \in ErrorStatuses }

\* C7: the error an action raises when the poll deadline elapses is of another
\* kind (error class) than every error it raises for a non-2xx, non-202 status.
C7_TimeoutDistinctKind ==
    (ActionFailed /\ clientResult.kind = "timeout")
    => actionResult.error.cls \notin ApiErrorClasses(action)

ValidationFailed ==
    ActionFailed /\ actionResult.error.message \in ValidationMessages

\* C9 as claimed: when an action fails with an input validation error, no
\* network call has been made during that execution.
C9_NoNetworkCallAtAll ==
    ValidationFailed => downloads = 0 /\ submits[i] = 0 /\ polls = 0

\* C9 as amended: when an action fails with an input validation error, no
\* submit POST and no poll GET has been made; the only network call that can
\* precede the error is the one download GET of the url input mode, before
\* the empty-content check and the PDF-header check.
C9_NoSubmitBeforeValidation ==
    ValidationFailed
    => /\ submits[i] = 0
       /\ polls = 0
       /\ submitResponse = NoResponse
       /\ downloads > 0
          => /\ downloads = 1
             /\ inputDataType = "url"
             /\ actionResult.error.message
                  \in {"content is required", "Invalid PDF content"}
       /\ inputDataType # "url" => downloads = 0

C9_Witness ==
    /\ ValidationFailed
    /\ action = "aiProcessMortgageDocument"
    /\ inputDataType = "url"
    /\ downloads = 1
    /\ docContent = <<"eHl6">>
    /\ actionResult.error.message = "Invalid PDF content"
    /\ submits[i] = 0

\* the records of the output that come from item k
RecordsOf(k) == { j \in 1..Len(operationResult) : operationResult[j].from = k }

ErrorRecords ==
    { j \in 1..Len(operationResult) : operationResult[j].error # NoError }

\* C11: with continue-on-failure enabled, a failure of item k, for any k,
\* ends in one error record for item k that carries item k's own input json
\* and the error raised; the failure never leaves execute as an exception.
C11_ErrorRecordForFailedItem ==
    continueOnFail
    => /\ pc # "thrown"
       /\ \A j \in ErrorRecords :
            /\ operationResult[j].json = items[operationResult[j].from + 1].json
            /\ operationResult[j].pairedItem = operationResult[j].from
            /\ Cardinality(RecordsOf(operationResult[j].from)) = 1

\* batches one item longer than those of Init, run with continue-on-failure:
\* a failure of the second item still has an item behind it
LongBatches ==
    { [k \in 1..(MaxItems + 1) |-> Item(k - 1, b[k])] :
        b \in [1..(MaxItems + 1) -> BOOLEAN] }

InitLongBatch ==
    /\ items \in LongBatches
    /\ continueOnFail = TRUE
    /\ parameters = DefaultParameters
    /\ i = 0
    /\ pc = "loop"
    /\ operationResult = <<>>
    /\ thrown = NoError
    /\ action = "none"
    /\ inputDataType = "none"
    /\ docName = "none"
    /\ docContent = NoContent
    /\ base64Content = NoContent
    /\ payload = NoPayload
    /\ optionsSent = Optional(NoPayload)
    /\ inFlight = 0
    /\ downloads = 0
    /\ submits = [k \in 0..(Len(items) - 1) |-> 0]
    /\ polls = 0
    /\ pollUrl = NoLocation
    /\ elapsed = 0
    /\ location = NoLocation
    /\ submitResponse = NoResponse
    /\ lastResponse = NoResponse
    /\ clientResult = NoResult
    /\ actionResult = NoOutcome

SpecLongBatch == InitLongBatch /\ [][Next]_vars

\* C12: with continue-on-failure enabled, a failing item never stops the
\* batch: when the execution is over, no item behind a failed one is left
\* unprocessed.
C12_LaterItemsStillProcessed ==
    (continueOnFail /\ pc \in {"thrown", "returned"})
    => /\ i >= Len(items) - 1
       /\ \A k \in 0..(Len(items) - 1) : k > i => submits[k] > 0

\* C13: with continue-on-failure disabled, the first failure of an action
\* aborts execute with that very error: the loop index stays at the failed
\* item, no submit has been or will be issued for a later item, and nothing
\* happens after the abort, so no output (not even the records of earlier
\* items) is returned.
C13_AbortOnFirstFailure ==
    [][ /\ (~continueOnFail /\ ActionFailed)
           => /\ pc' = "thrown"
              /\ thrown' = actionResult.error
              /\ i' = i
              /\ operationResult' = operationResult
              /\ \A k \in DOMAIN submits : k > i => submits'[k] = 0
        /\ pc = "thrown" => pc' = "thrown" /\ submits' = submits
      ]_vars

C13_Witness ==
    /\ ~continueOnFail
    /\ pc = "thrown"
    /\ Len(items) = 2
    /\ i = 0
    /\ thrown.message = "Rate limit exceeded"
    /\ submits[0] = 1
    /\ submits[1] = 0

(***************************************************************************)
(* Properties of one action execution.                                     *)
(***************************************************************************)
\* C14: when the submit POST is answered 401, the error that leaves the
\* action still carries the status 401, in every one of the eight actions.
C14_Status401Preserved ==
    (ActionFailed /\ submitResponse.status = 401)
    => /\ clientResult = ApiError(401, submitResponse.body)
       /\ actionResult.error.statusCode = 401

\* the action of item i has ended by returning a record built from the
\* client's result
ActionSucceeded == ClientEnded /\ actionResult.kind = "return"

\* the remote JSON result the client returned: an object, or its JSON text
RemoteResult ==
    IF clientResult.body.type = "string" THEN RemoteObject ELSE clientResult.body.obj

\* C15: the record of a successful action is the remote JSON result with
\* _metadata added: success is true, sourceFileName is the docName parameter,
\* operation names the action that ran, and every other key of the remote
\* result is there with its value.
C15_ResultWithMetadata ==
    ActionSucceeded
    => LET json == actionResult.record.json
       IN  /\ DOMAIN json = DOMAIN RemoteResult \cup {"_metadata"}
           /\ json._metadata.success = TRUE
           /\ json._metadata.sourceFileName = docName
           /\ json._metadata.operation = action
           /\ \A k \in DOMAIN RemoteResult \ {"_metadata"} : json[k] = RemoteResult[k]

C15_Witness ==
    /\ ActionSucceeded
    /\ action = "aiProcessHealthCard"
    /\ submitResponse.status = 202
    /\ polls = 2
    /\ clientResult.body.type = "string"
    /\ actionResult.record.json.amount = "100.00"
    /\ actionResult.record.json._metadata.operation = "aiProcessHealthCard"

\* the tokens of base64 text
Base64Tokens == { PdfHeader, "eHl6" }

IsBase64(s) == \A k \in 1..Len(s) : s[k] \in Base64Tokens

\* the submit POST is in flight
Submitting == pc = "submit"

\* the payload under way has the three keys, the document name of the
\* parameters, a content that is not blank, and the flag set
PayloadWellFormed ==
    /\ {"docName", "docContent", "IsAsync"} \subseteq DOMAIN payload
    /\ payload.docName = docName
    /\ payload.docContent = docContent
    /\ Len(payload.docContent) > 0
    /\ ~IsBlank(payload.docContent)
    /\ payload.IsAsync = TRUE

C17_NormalizationIdempotent ==
    inputDataType = "base64"
    => /\ docContent = NormalizeBase64(base64Content)
       /\ NormalizeBase64(docContent) = docContent
       /\ \A b \in Base64Strings :
            base64Content \in {b, DataUrl(b)} => docContent = b

C17_Witness ==
    /\ Submitting
    /\ inputDataType = "base64"
    /\ base64Content = DataUrl(<<PdfHeader, "eHl6">>)
    /\ docContent = <<PdfHeader, "eHl6">>
    /\ action = "aiInvoiceParser"

\* the client returned a string that is not valid JSON
ResultNotJson ==
    /\ ClientEnded
    /\ clientResult.kind = "success"
    /\ clientResult.body.type = "string"
    /\ clientResult.body.text # RemoteJson

\* C18 as claimed: when the client returns a string that is not valid JSON,
\* the action fails with the parse-failure error and returns no record.
C18_NotJsonIsParseFailure ==
    ResultNotJson
    => /\ actionResult.kind = "throw"
       /\ actionResult.error.message = "Failed to parse API response"

\* C18 as amended: when the client returns a string that is not valid JSON,
\* the action returns no record and fails: with the parse-failure error when
\* the string is not empty, with "No response data received" when it is.
C18_NotJsonFails ==
    ResultNotJson
    => /\ actionResult.kind = "throw"
       /\ actionResult.record = NoRecord
       /\ actionResult.error =
            OpError(action, IF clientResult.body.text = ""
                            THEN "No response data received"
                            ELSE "Failed to parse API response")

C18_Witness ==
    /\ ResultNotJson
    /\ action = "aiProcessContract"
    /\ clientResult.body.text = "<html>"
    /\ actionResult.error.cls = "NodeOperationError"
    /\ actionResult.error.message = "Failed to parse API response"

\* C19: within the processing of one document at most one HTTP request is in
\* flight: the download is answered before the submit is issued, the submit
\* before the first poll, and each poll before the next one.
C19_OneRequestInFlight ==
    /\ inFlight \in {0, 1}
    /\ inFlight = 1 <=> pc \in {"download", "submit", "poll"}
    /\ pc = "download" => submits[i] = 0 /\ polls = 0
    /\ pc = "submit" => submitResponse = NoResponse /\ polls = 0
    /\ pc = "poll"
       => /\ submitResponse.status = 202
          /\ polls = (elapsed \div PollInterval) + 1
          /\ polls > 1 => lastResponse.status = 202

C19_Witness ==
    /\ pc = "poll"
    /\ downloads = 1
    /\ submits[i] = 1
    /\ polls = 2
    /\ inFlight = 1

\* the batches that agree with the one under way on item k and may differ
\* in every other item
BatchesWithSameItem(k) ==
    { b \in Batches : Len(b) = Len(items) /\ b[k + 1] = items[k + 1] }

\* nothing of an earlier invocation is left when the next one starts
FreshInvocation ==
    /\ action = "none" /\ inputDataType = "none" /\ docName = "none"
    /\ docContent = NoContent /\ base64Content = NoContent /\ payload = NoPayload
    /\ optionsSent = Optional(NoPayload)
    /\ inFlight = 0 /\ downloads = 0 /\ polls = 0 /\ elapsed = 0
    /\ pollUrl = NoLocation /\ location = NoLocation
    /\ submitResponse = NoResponse /\ lastResponse = NoResponse
    /\ clientResult = NoResult /\ actionResult = NoOutcome

\* C20: the invocations for different items are independent.  When the
\* invocation for item i starts, no state of an earlier invocation is left
\* and no request has been made for item i or a later item; what the action
\* reads of the input items is the same in every batch that agrees on item
\* i; and while item i is processed the records of the output are those of
\* earlier items only.
C20_InvocationsIndependent ==
    /\ pc = "loop" => FreshInvocation
    /\ (pc = "loop" /\ i < Len(items))
       => /\ \A k \in DOMAIN submits : k >= i => submits[k] = 0
          /\ \A b \in BatchesWithSameItem(i), op \in Operations, buf \in Buffers :
               ResolveBinaryOf(b, op, i, buf) = ResolveBinary(op, i, buf)
    /\ \A j \in 1..Len(operationResult) : operationResult[j].from < i
    /\ \A k \in DOMAIN submits : k > i => submits[k] = 0

C20_Witness ==
    /\ ActionSucceeded
    /\ i = 1
    /\ items[1].binary # items[2].binary
    /\ Len(operationResult) = 1
    /\ operationResult[1].error.message = "Invalid PDF content"
    /\ submits[0] = 0
    /\ submits[1] = 1

(***************************************************************************)
(* Executions of a node whose optional parameters are set.                 *)
(***************************************************************************)
\* one input item, the optional parameters at any of their settings
InitOptionalFields ==
    /\ items \in { b \in Batches : Len(b) = 1 }
    /\ continueOnFail \in BOOLEAN
    /\ parameters \in ParameterSettings
    /\ i = 0
    /\ pc = "loop"
    /\ operationResult = <<>>
    /\ thrown = NoError
    /\ action = "none"
    /\ inputDataType = "none"
    /\ docName = "none"
    /\ docContent = NoContent
    /\ base64Content = NoContent
    /\ payload = NoPayload
    /\ optionsSent = Optional(NoPayload)
    /\ inFlight = 0
    /\ downloads = 0
    /\ submits = [k \in 0..(Len(items) - 1) |-> 0]
    /\ polls = 0
    /\ pollUrl = NoLocation
    /\ elapsed = 0
    /\ location = NoLocation
    /\ submitResponse = NoResponse
    /\ lastResponse = NoResponse
    /\ clientResult = NoResult
    /\ actionResult = NoOutcome

SpecOptionalFields == InitOptionalFields /\ [][Next]_vars

(***************************************************************************)
(* Optional fields in the payload and in the metadata.                     *)
(***************************************************************************)
\* the payload sent for item i carried a list of custom field keys
KeysSent == {"customFieldKeys", "CustomFieldKeys"} \cap DOMAIN optionsSent # {}

\* the list of custom field keys the payload carried
SentKeys == optionsSent[CustomFieldKeysName(action)]

\* C21: the _metadata of a successful action reports the optional fields that
\* were used: customFieldsUsed and customFieldsCount are there exactly when
\* custom field keys were sent in the payload and are the list and the number
\* of the keys sent; documentType and verifyAuthenticity are there exactly
\* when they were sent and hold the value sent.
C21_MetadataReportsOptionsSent ==
    ActionSucceeded
    => LET m == actionResult.record.json._metadata
       IN  /\ ("customFieldsUsed" \in DOMAIN m) <=> KeysSent
           /\ ("customFieldsCount" \in DOMAIN m) <=> KeysSent
           /\ KeysSent => /\ m.customFieldsUsed = SentKeys
                          /\ m.customFieldsCount = Len(SentKeys)
           /\ ("documentType" \in DOMAIN m) <=> ("documentType" \in DOMAIN optionsSent)
           /\ "documentType" \in DOMAIN m
              => m.documentType = optionsSent.documentType
           /\ ("verifyAuthenticity" \in DOMAIN m)
              <=> ("VerifyAuthenticity" \in DOMAIN optionsSent)
           /\ "verifyAuthenticity" \in DOMAIN m
              => m.verifyAuthenticity = optionsSent.VerifyAuthenticity

(***************************************************************************)
(* The PDF header check.                                                   *)
(***************************************************************************)
\* the action of item i failed on its content, before the client was called
ContentRejected ==
    /\ pc = "actionDone"
    /\ ~ClientEnded
    /\ actionResult.kind = "throw"
    /\ inputDataType \in {"binaryData", "base64", "url"}
    /\ docContent # NoContent

\* C22: invoice, contract, mortgage and bank cheque reject content that does
\* not start with the PDF header before anything is submitted; health card,
\* credit card, pay stub and marriage certificate make no such check: they
\* reject blank content only and submit every other content.
C22_PdfHeaderCheckedByFour ==
    /\ ContentRejected /\ ~IsBlank(docContent)
       => /\ action \in { "aiInvoiceParser", "aiProcessContract",
                          "aiProcessMortgageDocument", "aiProcessBankCheque" }
          /\ ~StartsWithPdfHeader(docContent)
          /\ actionResult.error.message = "Invalid PDF content"
          /\ submits[i] = 0
    /\ (Submitting /\ ~StartsWithPdfHeader(payload.docContent))
       => action \in { "aiProcessHealthCard", "aiProcessCreditCard",
                       "aiProcessPayStub", "aiProcessMarriageCertificate" }

\* a pay stub that is not a PDF is submitted
C22_Witness ==
    /\ Submitting
    /\ action = "aiProcessPayStub"
    /\ inputDataType = "binaryData"
    /\ payload.docContent = <<"eHl6">>
    /\ submits[i] = 1

\* the same content is rejected by the bank cheque action
C22_WitnessRejected ==
    /\ ContentRejected
    /\ action = "aiProcessBankCheque"
    /\ docContent = <<"eHl6">>
    /\ submits[i] = 0

(***************************************************************************)
(* Binary input.                                                           *)
(***************************************************************************)
\* the action of item i took the binaryData branch and is past it
BinaryResolved ==
    /\ inputDataType = "binaryData"
    /\ pc \in {"submit", "actionDone"}

\* C23: in binary mode the action for item i raises 'No binary data found'
\* exactly when item i itself lacks the binary property, and otherwise goes
\* on with the encoded buffer of item i, for every index i.
C23_BinaryCheckOnItemItself ==
    BinaryResolved
    => IF ~items[i + 1].binary
       THEN /\ actionResult.kind = "throw"
            /\ actionResult.error.message = "No binary data found"
       ELSE /\ \E buf \in Buffers : docContent = ToBase64(buf)
            /\ actionResult.kind = "throw"
               => actionResult.error.message
                    \in {"content is required", "Invalid PDF content"}

(***************************************************************************)
(* Optional keys of the payload.                                           *)
(***************************************************************************)
\* a string of k blanks
Blanks(k) == [j \in 1..k |-> " "]

\* v is s without the blanks around it
IsTrimmed(v, s) ==
    /\ v # <<>>
    /\ v[1] # " "
    /\ v[Len(v)] # " "
    /\ \E m, n \in 0..Len(s) : s = Blanks(m) \o v \o Blanks(n)

\* sub holds exactly the non-empty entries of list, in the order of list
IsNonEmptyKeysOf(sub, list) ==
    \E f \in [1..Len(sub) -> 1..Len(list)] :
        /\ \A j, k \in 1..Len(sub) : j < k => f[j] < f[k]
        /\ \A j \in 1..Len(sub) : sub[j] = list[f[j]]
        /\ \A k \in 1..Len(list) :
             list[k] # "" <=> \E j \in 1..Len(sub) : f[j] = k

\* C24: the optional keys are in the payload only when they were provided.
\* The list of custom field keys is there exactly when an action that has
\* custom fields was given at least one field with a non-empty key, and
\* holds exactly the non-empty keys in their order; VerifyAuthenticity is
\* there exactly when the marriage certificate action's flag is true;
\* documentType is there exactly when the mortgage action's parameter is not
\* blank, and holds the trimmed value.  No other key is added.
C24_OptionalKeysOnlyWhenProvided ==
    Submitting
    => LET listKeys == {"customFieldKeys", "CustomFieldKeys"} \cap DOMAIN payload
           provided == \E k \in 1..Len(parameters.customFields) :
                          parameters.customFields[k] # ""
       IN  /\ DOMAIN payload \subseteq
                {"docName", "docContent", "IsAsync", "customFieldKeys",
                 "CustomFieldKeys", "VerifyAuthenticity", "documentType"}
           /\ listKeys # {} <=> (action \in CustomFieldActions /\ provided)
           /\ \A key \in listKeys :
                /\ listKeys = {key}
                /\ IsNonEmptyKeysOf(payload[key], parameters.customFields)
           /\ "VerifyAuthenticity" \in DOMAIN payload
                <=> (action = "aiProcessMarriageCertificate"
                     /\ parameters.verifyAuthenticity)
           /\ "VerifyAuthenticity" \in DOMAIN payload
                => payload.VerifyAuthenticity = TRUE
           /\ "documentType" \in DOMAIN payload
                <=> (action = "aiProcessMortgageDocument"
                     /\ \E k \in 1..Len(parameters.documentType) :
                           parameters.documentType[k] # " ")
           /\ "documentType" \in DOMAIN payload
                => IsTrimmed(payload.documentType, parameters.documentType)

C24_Witness ==
    /\ Submitting
    /\ action = "aiProcessMortgageDocument"
    /\ parameters.customFields = <<"total", "", "date">>
    /\ parameters.documentType = <<" ", "loan", " ">>
    /\ payload.CustomFieldKeys = <<"total", "date">>
    /\ payload.documentType = <<"loan">>
    /\ "VerifyAuthenticity" \notin DOMAIN payload

(***************************************************************************)
(* The order in which the dispatcher works.                                *)
(***************************************************************************)
\* a network request is issued in the step
RequestIssued ==
    \/ downloads' > downloads
    \/ polls' > polls
    \/ \E k \in DOMAIN submits : submits'[k] > submits[k]

\* C25: the dispatcher processes the items strictly one after another.  The
\* loop goes from item i to item i + 1 and to no other, and only when the
\* action of item i has returned or raised (or no action matched) and none of
\* its requests is outstanding; every request issued is one of the item
\* under way, and no request exists for a later item.
C25_OneItemAtATime ==
    [][ /\ i' # i
           => /\ i' = i + 1
              /\ inFlight = 0
              /\ \/ pc = "actionDone" /\ actionResult.kind \in {"return", "throw"}
                 \/ pc = "loop" /\ action = "none" /\ operationResult' = operationResult
        /\ RequestIssued
           => /\ i' = i
              /\ i < Len(items)
              /\ \A k \in DOMAIN submits : k # i => submits'[k] = submits[k]
        /\ \A k \in DOMAIN submits : k > i' => submits'[k] = 0
      ]_vars

\* the second item is being polled for, the first has its record
C25_Witness ==
    /\ i = 1
    /\ pc = "poll"
    /\ Len(operationResult) = 1
    /\ operationResult[1].from = 0
    /\ submits[0] = 1
    /\ submits[1] = 1
    /\ inFlight = 1

\* C26: an item whose operation is none of the eight constants is passed
\* over: the loop goes on to the next item, no action runs, no request is
\* made, no error is raised and nothing is appended to the output; the
\* records already there stay as they are.
C26_UnknownOperationIsNoOp ==
    [][ (pc = "loop" /\ i' # i)
        => /\ i' = i + 1
           /\ pc' = "loop"
           /\ operationResult' = operationResult
           /\ thrown' = NoError
           /\ action' = "none"
           /\ actionResult' = NoOutcome
           /\ submits' = submits
           /\ downloads' = 0 /\ polls' = 0 /\ inFlight' = 0
      ]_vars

\* two items, the first has its record, the second was passed over
C26_Witness ==
    /\ pc = "returned"
    /\ Len(items) = 2
    /\ i = 2
    /\ Len(operationResult) = 1
    /\ operationResult[1].from = 0
    /\ operationResult[1].error = NoError
    /\ submits[0] = 1
    /\ submits[1] = 0
    /\ thrown = NoError

\* C27: the records of the output stand in the order of the input items
\* they belong to, and each is the record of an item already processed.
C27_RecordsInInputOrder ==
    /\ \A j, k \in 1..Len(operationResult) :
         j < k => operationResult[j].from < operationResult[k].from
    /\ \A j \in 1..Len(operationResult) :
         /\ operationResult[j].from \in 0..(Len(items) - 1)
         /\ operationResult[j].from < i

\* an error record for the first item, then the record of the second
C27_Witness ==
    /\ pc = "returned"
    /\ Len(operationResult) = 2
    /\ operationResult[1].from = 0
    /\ operationResult[1].error # NoError
    /\ operationResult[2].from = 1
    /\ operationResult[2].error = NoError

(***************************************************************************)
(* What an action execution hands back.                                    *)
(***************************************************************************)
\* results of the client that are falsy in JavaScript: null / undefined and
\* the empty string
FalsyBodies == { NoBody, [type |-> "string", obj |-> NoObj, text |-> ""] }

\* C28: an action execution ends with one record or with an error, never
\* with an empty list: when it has ended it has either returned a record
\* that carries _metadata or raised an error, and a client result that is
\* falsy (empty string, null) makes it raise 'No response data received'.
C28_OneRecordOrError ==
    /\ pc = "actionDone"
       => \/ /\ actionResult.kind = "return"
             /\ actionResult.record # NoRecord
             /\ "_metadata" \in DOMAIN actionResult.record.json
             /\ actionResult.error = NoError
          \/ /\ actionResult.kind = "throw"
             /\ actionResult.error # NoError
             /\ actionResult.record = NoRecord
    /\ (ClientEnded /\ clientResult.kind = "success"
           /\ clientResult.body \in FalsyBodies)
       => /\ actionResult.kind = "throw"
          /\ actionResult.error.message = "No response data received"
    /\ pc = "actionDone"
       => \A op \in Operations, b \in FalsyBodies :
            /\ AfterClient(op, i, docName, parameters, Success(b)).kind = "throw"
            /\ AfterClient(op, i, docName, parameters, Success(b)).error.message
                 = "No response data received"
    /\ Len(operationResult) <= i

\* the service answered 200 with an empty body
C28_Witness ==
    /\ ClientEnded
    /\ submitResponse.status = 200
    /\ clientResult.kind = "success"
    /\ clientResult.body.type = "string"
    /\ clientResult.body.text = ""
    /\ actionResult.kind = "throw"
    /\ actionResult.error.message = "No response data received"

\* C29: the _metadata of a returned record is always the envelope the action
\* built itself, never a _metadata key of the remote result: it has the
\* action's own success flag, source file name and operation name, and
\* nothing of the remote _metadata.
C29_MetadataIsLocal ==
    ActionSucceeded
    => LET m == actionResult.record.json._metadata
       IN  /\ {"success", "sourceFileName", "operation"} \subseteq DOMAIN m
           /\ m.success = TRUE
           /\ m.sourceFileName = docName
           /\ m.operation = action
           /\ "_metadata" \in DOMAIN RemoteResult
              => /\ m # RemoteResult._metadata
                 /\ DOMAIN m \cap DOMAIN RemoteResult._metadata = {}

\* the remote result has a _metadata key of its own
C29_Witness ==
    /\ ActionSucceeded
    /\ action = "aiProcessCreditCard"
    /\ clientResult.body.type = "object"
    /\ clientResult.body.obj._metadata = [remote |-> "yes"]
    /\ actionResult.record.json._metadata.operation = "aiProcessCreditCard"
    /\ actionResult.record.json.amount = "100.00"

(***************************************************************************)
(* The two classes of errors of the client call.                           *)
(***************************************************************************)
\* the client raised an error for item i
ClientRaised ==
    ClientEnded /\ clientResult.kind \in {"api", "timeout", "transport"}

\* errors that report a status of the remote service
ApiClass(err) ==
    \/ err.cls = "NodeApiError"
    \/ err.message \in { "PDF4Me server error", "API endpoint not found",
                          "Authentication failed", "Access denied",
                          "Rate limit exceeded", "PDF4Me API error" }

\* errors that report a failed connection
ConnectionClass(err) ==
    /\ err.cls # "NodeApiError"
    /\ err.message \in { "Connection was reset", "Connection error" }

\* C30: every error the client raises is raised again by the action, never
\* turned into a record, and as an error of exactly one of two classes: an
\* API-class error when the client's error carries a statusCode, a
\* connection-class error when it carries none.
C30_ErrorClassesDisjoint ==
    ClientRaised
    => /\ actionResult.kind = "throw"
       /\ actionResult.record = NoRecord
       /\ ApiClass(actionResult.error) <=> clientResult.statusCode # 0
       /\ ConnectionClass(actionResult.error) <=> clientResult.statusCode = 0
       /\ ~(ApiClass(actionResult.error) /\ ConnectionClass(actionResult.error))

\* a poll answered 404
C30_Witness ==
    /\ ClientRaised
    /\ action = "aiProcessMarriageCertificate"
    /\ polls = 1
    /\ clientResult.kind = "api"
    /\ clientResult.statusCode = 404
    /\ actionResult.error.message = "API endpoint not found"

====
